---- MODULE Spec2Model ----
(***************************************************************************)
(* A model of pyro/infer/util.py: the tree cumulative sum (TreeSum) and    *)
(* the shape-keyed accumulator (MultiViewTensor).                          *)
(*                                                                         *)
(* Python objects are modelled with a heap: every dict of a TreeSum is a   *)
(* heap cell, and a TreeSum object holds references to its two dicts, so   *)
(* that sharing of a dict between two objects is expressible.              *)
(***************************************************************************)
EXTENDS Integers, Sequences, FiniteSets, Bags, TLC

\* ------------------------------------------------------------------ bounds
\* Length of a sequence of calls on TreeSum objects, and the number of add
\* calls in it.
MaxOps == 4
MaxAdds == 2
\* Number of add calls whose order is varied.
MaxCalls == 3
\* Length of a sequence of calls on MultiViewTensor objects.
MaxTerms == 3

\* The keys of a tree: the root, its two children, and the two children of the
\* first child.
Keys == {<<>>, <<0>>, <<1>>, <<0, 0>>, <<0, 1>>}
\* The keys used where two objects are operated on side by side.
CopyKeys == {<<>>, <<0>>}
\* The values passed to add.
Vals == {0, 1}

\* The variables a caller holds TreeSum objects in.
Insts == {"a", "b"}

\* The variables a caller holds MultiViewTensor objects in.
Mvts == {"m", "n"}
\* The shapes of the tensors given to MultiViewTensor, with entries 0 and 1.
TermShapes == {<<>>, <<2>>, <<1, 2>>}
Entries == {0, 1}

\* The shapes of the sources and targets given to the reduction helpers, and
\* the shapes sources are expanded to.
ReduceShapes == {<<>>, <<1>>, <<2>>, <<3>>, <<1, 1>>, <<1, 2>>, <<2, 1>>, <<2, 2>>, <<2, 3>>}
ExpandShapes == ReduceShapes \cup {<<4, 5>>}

\* ------------------------------------------------------------ python values
\* None is the empty tuple and a number v that may be None is <<v>>.
None == <<>>
Some(v) == <<v>>

\* {}
EmptyDict == [k \in {} |-> 0]
\* d[k] = v
DictSet(d, k, v) == [x \in DOMAIN d \cup {k} |-> IF x = k THEN v ELSE d[x]]
\* d.pop(k, None)
DictPop(d, k) == [x \in DOMAIN d \ {k} |-> d[x]]
\* d.get(k)
DictGet(d, k) == IF k \in DOMAIN d THEN Some(d[k]) ELSE None

\* key[:-1]
Parent(key) == SubSeq(key, 1, Len(key) - 1)

\* math.exp on the numbers of the model: 2^x stands for e^x (strictly
\* increasing, never equal to its argument, a product on sums).
torch_exp(x) == Some(2 ^ x[1])

\* ---------------------------------------------------------------- variables
VARIABLES
    heap,      \* dict reference -> dict
    inst,      \* caller variable -> TreeSum object (its fields)
    ret,       \* the last call: operation, receiver, arguments, outcome
    hist,      \* history of each object, kept for the properties
    nops,      \* number of calls made
    nadds,     \* number of add calls made
    pending,   \* per object, the add calls still to be made (a bag)
    answers,   \* the results of one get_upstream call on each object
    mvt,       \* caller variable -> MultiViewTensor (a dict shape -> tensor)
    mhist,     \* history: per accumulator, the bag of the terms added to it
    mret,      \* the last call on a MultiViewTensor
    mops,      \* number of calls made on MultiViewTensors
    rsource,   \* the tensor given to a reduction helper
    rtarget,   \* the target tensor; the target shape is its shape
    orig,      \* the tensor rsource was expanded from, if it was
    reduced    \* the call of a reduction helper made on source and target

treeVars == <<heap, inst, ret, hist, nops, nadds>>
orderVars == <<pending, answers>>
mvtVars == <<mvt, mhist, mret, mops>>
tensorVars == <<rsource, rtarget, orig, reduced>>
vars == <<treeVars, orderVars, mvtVars, tensorVars>>

\* References of the dicts allocated for the object bound to variable i.
TermsRef(i) == <<i, "terms">>
UpstreamRef(i) == <<i, "upstream">>
Refs == {TermsRef(i) : i \in Insts} \cup {UpstreamRef(i) : i \in Insts}

NoObject == [live |-> FALSE, id |-> 0, terms |-> TermsRef("a"),
             upstream |-> UpstreamRef("a"), frozen |-> FALSE]

\* TreeSum.__init__, allocating in the dicts of variable i; id names the object.
TreeSum_init(i, id) ==
    [live |-> TRUE, id |-> id, terms |-> TermsRef(i),
     upstream |-> UpstreamRef(i), frozen |-> FALSE]

\* The fields of the object bound to i, read through the heap.
Terms(i) == heap[inst[i].terms]
Upstream(i) == heap[inst[i].upstream]
Frozen(i) == inst[i].frozen
Live(i) == inst[i].live

\* k is key or a prefix of key.
IsPrefix(k, key) == Len(k) <= Len(key) /\ SubSeq(key, 1, Len(k)) = k

\* --------------------------------------------------------------- operations
\* Each operation maps a heap h and a receiver object self to the heap and
\* the receiver after the call, with the call's result and error.

\* add without the assertion of line 167.
TreeSum_add_unchecked(h, self, key, value) ==
    [heap |-> [h EXCEPT ![self.terms] =
                  DictSet(@, key, IF key \in DOMAIN @ THEN @[key] + value ELSE value)],
     self |-> self, err |-> "ok"]

\* add that stores the value and drops the term already there (line 169).
TreeSum_add_overwrite(h, self, key, value) ==
    IF self.frozen
    THEN [heap |-> h, self |-> self, err |-> "AssertionError"]
    ELSE [heap |-> [h EXCEPT ![self.terms] = DictSet(@, key, value)],
          self |-> self, err |-> "ok"]

\* add that writes the term before it checks the flag.
TreeSum_add_late_assert(h, self, key, value) ==
    [heap |-> [h EXCEPT ![self.terms] =
                  DictSet(@, key, IF key \in DOMAIN @ THEN @[key] + value ELSE value)],
     self |-> self, err |-> IF self.frozen THEN "AssertionError" ELSE "ok"]

\* add that checks the flag only where it inserts a key (the assertion of line
\* 167 moved to line 171).
TreeSum_add_merge_frozen(h, self, key, value) ==
    IF self.frozen /\ key \notin DOMAIN h[self.terms]
    THEN [heap |-> h, self |-> self, err |-> "AssertionError"]
    ELSE [heap |-> [h EXCEPT ![self.terms] =
                       DictSet(@, key, IF key \in DOMAIN @ THEN @[key] + value
                                       ELSE value)],
          self |-> self, err |-> "ok"]

TreeSum_add(h, self, key, value) ==
    IF self.frozen
    THEN [heap |-> h, self |-> self, err |-> "AssertionError"]
    ELSE [heap |-> [h EXCEPT ![self.terms] =
                       DictSet(@, key, IF key \in DOMAIN @ THEN @[key] + value
                                       ELSE value)],
          self |-> self, err |-> "ok"]

\* get_upstream returns, with its result, the keys whose upstream sum the call
\* computed (lines 180-186), in the order they were stored.
RECURSIVE TreeSum_get_upstream(_, _, _)

\* get_upstream without the parent's upstream sum (lines 181-184 dropped).
TreeSum_get_upstream_own(h, self, key) ==
    IF key \in DOMAIN h[self.upstream]
    THEN [heap |-> h, self |-> self, result |-> h[self.upstream][key],
          computed |-> <<>>]
    ELSE LET result == DictGet(h[self.terms], key)
         IN [heap |-> [h EXCEPT ![self.upstream] = DictSet(@, key, result)],
             self |-> [self EXCEPT !.frozen = TRUE],
             result |-> result, computed |-> <<key>>]

\* get_upstream that does not look into the cache (lines 177-179 dropped).
TreeSum_get_upstream_recompute(h, self, key) ==
    LET own == DictGet(h[self.terms], key)
        up == IF key # <<>>
              THEN TreeSum_get_upstream(h, self, Parent(key))
              ELSE [heap |-> h, self |-> self, result |-> None, computed |-> <<>>]
        result == IF key # <<>> /\ up.result # None
                  THEN IF own = None THEN up.result
                       ELSE Some(up.result[1] + own[1])
                  ELSE own
    IN [heap |-> [up.heap EXCEPT ![self.upstream] = DictSet(@, key, result)],
        self |-> [up.self EXCEPT !.frozen = TRUE],
        result |-> result, computed |-> Append(up.computed, key)]

\* get_upstream that starts from 0 where the key has no local term
\* (self._terms.get(key, 0) on line 180).
TreeSum_get_upstream_zero(h, self, key) ==
    IF key \in DOMAIN h[self.upstream]
    THEN [heap |-> h, self |-> self, result |-> h[self.upstream][key],
          computed |-> <<>>]
    ELSE LET own == IF key \in DOMAIN h[self.terms] THEN h[self.terms][key] ELSE 0
             up == IF key # <<>>
                   THEN TreeSum_get_upstream(h, self, Parent(key))
                   ELSE [heap |-> h, self |-> self, result |-> None, computed |-> <<>>]
             result == IF key # <<>> /\ up.result # None
                       THEN Some(up.result[1] + own)
                       ELSE Some(own)
         IN [heap |-> [up.heap EXCEPT ![self.upstream] = DictSet(@, key, result)],
             self |-> [up.self EXCEPT !.frozen = TRUE],
             result |-> result, computed |-> Append(up.computed, key)]

TreeSum_get_upstream(h, self, key) ==
    IF key \in DOMAIN h[self.upstream]
    THEN [heap |-> h, self |-> self, result |-> h[self.upstream][key],
          computed |-> <<>>]
    ELSE LET own == DictGet(h[self.terms], key)
             up == IF key # <<>>
                   THEN TreeSum_get_upstream(h, self, Parent(key))
                   ELSE [heap |-> h, self |-> self, result |-> None, computed |-> <<>>]
             result == IF key # <<>> /\ up.result # None
                       THEN IF own = None THEN up.result
                            ELSE Some(up.result[1] + own[1])
                       ELSE own
         IN [heap |-> [up.heap EXCEPT ![self.upstream] = DictSet(@, key, result)],
             self |-> [up.self EXCEPT !.frozen = TRUE],
             result |-> result, computed |-> Append(up.computed, key)]

\* The loop of _freeze over the keys of _terms.  The cache it leaves does not
\* depend on the order of the keys: an entry is computed from the local term
\* and the parent's entry, whichever call computes it.
RECURSIVE FreezeLoop(_, _, _)
FreezeLoop(h, self, todo) ==
    IF todo = {} THEN [heap |-> h, self |-> self, computed |-> <<>>]
    ELSE LET key == CHOOSE k \in todo : TRUE
             r == TreeSum_get_upstream(h, self, key)
         IN [FreezeLoop(r.heap, r.self, todo \ {key}) EXCEPT !.computed = r.computed \o @]

\* _freeze without its last line (192).
TreeSum_freeze_loop_only(h, self) ==
    LET r == FreezeLoop(h, self, DOMAIN h[self.terms])
    IN [heap |-> r.heap, self |-> r.self, computed |-> r.computed]

TreeSum_freeze(h, self) ==
    LET r == FreezeLoop(h, self, DOMAIN h[self.terms])
    IN [heap |-> r.heap, self |-> [r.self EXCEPT !.frozen = TRUE],
        computed |-> r.computed]

TreeSum_items(h, self) ==
    LET r == TreeSum_freeze(h, self)
    IN [heap |-> r.heap, self |-> r.self, result |-> r.heap[self.upstream],
        computed |-> r.computed]

\* exp over every key of the upstream cache instead of the keys of _terms.
TreeSum_exp_all_cached(h, self, out, id) ==
    LET r == TreeSum_freeze(h, self)
        ups == r.heap[self.upstream]
        err == IF \E key \in DOMAIN ups : ups[key] = None THEN "AttributeError"
               ELSE "ok"
        result == [TreeSum_init(out, id) EXCEPT !.frozen = TRUE]
    IN IF err # "ok"
       THEN [heap |-> r.heap, self |-> r.self, err |-> err, result |-> NoObject,
             computed |-> r.computed]
       ELSE [heap |-> [r.heap EXCEPT ![result.terms] = EmptyDict,
                                     ![result.upstream] =
                                         [key \in DOMAIN ups |-> torch_exp(ups[key])]],
             self |-> r.self, err |-> "ok", result |-> result,
             computed |-> r.computed]

\* exp that leaves the flag of its result as TreeSum() made it (line 204
\* dropped).
TreeSum_exp_unfrozen(h, self, out, id) ==
    LET r == TreeSum_freeze(h, self)
        terms == r.heap[self.terms]
        ups == r.heap[self.upstream]
        err == IF \E key \in DOMAIN terms : key \notin DOMAIN ups THEN "KeyError"
               ELSE IF \E key \in DOMAIN terms : ups[key] = None THEN "AttributeError"
               ELSE "ok"
        result == TreeSum_init(out, id)
    IN IF err # "ok"
       THEN [heap |-> r.heap, self |-> r.self, err |-> err, result |-> NoObject,
             computed |-> r.computed]
       ELSE [heap |-> [r.heap EXCEPT ![result.terms] = EmptyDict,
                                     ![result.upstream] =
                                         [key \in DOMAIN terms |-> torch_exp(ups[key])]],
             self |-> r.self, err |-> "ok", result |-> result,
             computed |-> r.computed]

\* exp: the result is allocated in the dicts of variable out.
TreeSum_exp(h, self, out, id) ==
    LET r == TreeSum_freeze(h, self)
        terms == r.heap[self.terms]
        ups == r.heap[self.upstream]
        err == IF \E key \in DOMAIN terms : key \notin DOMAIN ups THEN "KeyError"
               ELSE IF \E key \in DOMAIN terms : ups[key] = None THEN "AttributeError"
               ELSE "ok"
        result == [TreeSum_init(out, id) EXCEPT !.frozen = TRUE]
    IN IF err # "ok"
       THEN [heap |-> r.heap, self |-> r.self, err |-> err, result |-> NoObject,
             computed |-> r.computed]
       ELSE [heap |-> [r.heap EXCEPT ![result.terms] = EmptyDict,
                                     ![result.upstream] =
                                         [key \in DOMAIN terms |-> torch_exp(ups[key])]],
             self |-> r.self, err |-> "ok", result |-> result,
             computed |-> r.computed]

\* prune that leaves the upstream cache alone (line 209 dropped).
TreeSum_prune_terms_only(h, self, key) ==
    IF ~self.frozen
    THEN [heap |-> h, self |-> self, err |-> "AssertionError"]
    ELSE [heap |-> [h EXCEPT ![self.terms] = DictPop(@, key)],
          self |-> self, err |-> "ok"]

\* prune with pop(key) in place of pop(key, None).
TreeSum_prune_strict(h, self, key) ==
    IF ~self.frozen
    THEN [heap |-> h, self |-> self, err |-> "AssertionError"]
    ELSE IF key \notin DOMAIN h[self.upstream] \/ key \notin DOMAIN h[self.terms]
    THEN [heap |-> [h EXCEPT ![self.upstream] = DictPop(@, key)],
          self |-> self, err |-> "KeyError"]
    ELSE [heap |-> [h EXCEPT ![self.upstream] = DictPop(@, key),
                             ![self.terms] = DictPop(@, key)],
          self |-> self, err |-> "ok"]

TreeSum_prune(h, self, key) ==
    IF ~self.frozen
    THEN [heap |-> h, self |-> self, err |-> "AssertionError"]
    ELSE [heap |-> [h EXCEPT ![self.upstream] = DictPop(@, key),
                             ![self.terms] = DictPop(@, key)],
          self |-> self, err |-> "ok"]

\* copy that shares the two dicts with the receiver (no .copy()).
TreeSum_copy_shared(h, self, out, id) ==
    [heap |-> h, self |-> self,
     result |-> [TreeSum_init(out, id) EXCEPT !.terms = self.terms,
                                              !.upstream = self.upstream,
                                              !.frozen = self.frozen]]

\* copy: the result is allocated in the dicts of variable out.
TreeSum_copy(h, self, out, id) ==
    LET result == [TreeSum_init(out, id) EXCEPT !.frozen = self.frozen]
    IN [heap |-> [h EXCEPT ![result.terms] = h[self.terms],
                           ![result.upstream] = h[self.upstream]],
        self |-> self, result |-> result]

\* ------------------------------------------------------------ tensors
\* A tensor is its shape and its entries in row-major order; kind tells a
\* Variable from a plain number and from None.
RECURSIVE NumElems(_)
NumElems(shape) == IF shape = <<>> THEN 1 ELSE Head(shape) * NumElems(Tail(shape))

Variables ==
    UNION {{[kind |-> "Variable", shape |-> sh, data |-> d] :
               d \in [1..NumElems(sh) -> Entries]} : sh \in TermShapes}
Numbers == {[kind |-> "Number", shape |-> <<>>, data |-> <<1>>]}
NoValue == [kind |-> "None", shape |-> <<>>, data |-> <<>>]

\* x + y for two tensors of one shape.
TensorAdd(x, y) == [x EXCEPT !.data = [n \in DOMAIN x.data |-> x.data[n] + y.data[n]]]

\* A MultiViewTensor passed as an argument.
AsTerm(entries) == [kind |-> "MultiViewTensor", entries |-> entries]

\* The sum of the numbers of a sequence.
RECURSIVE SumSeq(_)
SumSeq(s) == IF Len(s) = 0 THEN 0 ELSE Head(s) + SumSeq(Tail(s))

\* The row-major position, from 0, of the index idx (from 0 on every axis) in
\* a tensor of shape `shape`, and the index at position n.
RECURSIVE Offset(_, _)
Offset(shape, idx) ==
    IF shape = <<>> THEN 0
    ELSE Head(idx) * NumElems(Tail(shape)) + Offset(Tail(shape), Tail(idx))

RECURSIVE IndexOf(_, _)
IndexOf(shape, n) ==
    IF shape = <<>> THEN <<>>
    ELSE <<n \div NumElems(Tail(shape))>>
             \o IndexOf(Tail(shape), n % NumElems(Tail(shape)))

\* x.dim(), and x.size(-k): sizes are read from the last axis backwards.
Dim(x) == Len(x.shape)
SizeFromEnd(shape, k) == shape[Len(shape) + 1 - k]

\* x.sum(axis) and x.sum(axis, keepdim=True) for an axis counted from 1 at the
\* left: the entries that differ on that axis only are added up, and the axis
\* is dropped or kept with size 1.
TensorSum(x, axis, keepdim) ==
    LET kept == [x.shape EXCEPT ![axis] = 1]
        dropped == SubSeq(x.shape, 1, axis - 1) \o SubSeq(x.shape, axis + 1, Len(x.shape))
    IN [kind |-> "Variable",
        shape |-> IF keepdim THEN kept ELSE dropped,
        data |-> [n \in 1..NumElems(kept) |->
                     LET idx == IndexOf(kept, n - 1)
                     IN SumSeq([j \in 1..x.shape[axis] |->
                                   x.data[Offset(x.shape, [idx EXCEPT ![axis] = j - 1]) + 1]])]]

\* x.sum(): a tensor of rank 0 holding the sum of all entries.
TensorSumAll(x) == [kind |-> "Variable", shape |-> <<>>, data |-> <<SumSeq(x.data)>>]

\* A shape S can be expanded to T when T has at least as many axes and every
\* axis of S, matched from the end, has the size of T's axis or size 1.
Expandable(S, T) ==
    /\ Len(S) <= Len(T)
    /\ \A k \in 1..Len(S) : SizeFromEnd(S, k) = SizeFromEnd(T, k) \/ SizeFromEnd(S, k) = 1

\* x.expand(T): the entry at an index of T is the entry of x at the same index
\* on the axes x has with the size of T, and at 0 on its axes of size 1.
TensorExpand(x, T) ==
    LET lead == Len(T) - Len(x.shape)
    IN [kind |-> "Variable", shape |-> T,
        data |-> [n \in 1..NumElems(T) |->
                     LET idx == IndexOf(T, n - 1)
                         own == [a \in 1..Len(x.shape) |->
                                    IF x.shape[a] = 1 THEN 0 ELSE idx[lead + a]]
                     IN x.data[Offset(x.shape, own) + 1]]]

\* ------------------------------------------------------- reduction helpers
\* Both helpers return the reduced tensor with the list of the reductions
\* made: <<"sum", 0>> for source.sum(0), <<"sum_keepdim", -k>> for
\* source.sum(-k, keepdim=True).
Reduction(out, steps) == [out |-> out, steps |-> steps]

\* reduce_to_target, lines 56-57: the while loop.
RECURSIVE reduce_to_target_while(_, _)
reduce_to_target_while(r, target) ==
    IF Dim(r.out) > Dim(target)
    THEN reduce_to_target_while(
             Reduction(TensorSum(r.out, 1, FALSE), Append(r.steps, <<"sum", 0>>)), target)
    ELSE r

\* reduce_to_target, lines 58-60: the for loop from k on; last is the
\* source.dim() the range was made from.
RECURSIVE reduce_to_target_for(_, _, _, _)
reduce_to_target_for(r, target, k, last) ==
    IF k > last THEN r
    ELSE reduce_to_target_for(
             IF SizeFromEnd(r.out.shape, k) > SizeFromEnd(target.shape, k)
             THEN Reduction(TensorSum(r.out, Dim(r.out) + 1 - k, TRUE),
                            Append(r.steps, <<"sum_keepdim", 0 - k>>))
             ELSE r,
             target, k + 1, last)

\* reduce_to_target that ends after its while loop.
reduce_to_target_leading_only(source, target) ==
    reduce_to_target_while(Reduction(source, <<>>), target)

reduce_to_target(source, target) ==
    LET r == reduce_to_target_while(Reduction(source, <<>>), target)
    IN reduce_to_target_for(r, target, 1, Dim(r.out))

\* reduce_to_shape, lines 69-70: the while loop.
RECURSIVE reduce_to_shape_while(_, _)
reduce_to_shape_while(r, shape) ==
    IF Dim(r.out) > Len(shape)
    THEN reduce_to_shape_while(
             Reduction(TensorSum(r.out, 1, FALSE), Append(r.steps, <<"sum", 0>>)), shape)
    ELSE r

\* reduce_to_shape, lines 71-73: the for loop from k on.
RECURSIVE reduce_to_shape_for(_, _, _, _)
reduce_to_shape_for(r, shape, k, last) ==
    IF k > last THEN r
    ELSE reduce_to_shape_for(
             IF SizeFromEnd(r.out.shape, k) > SizeFromEnd(shape, k)
             THEN Reduction(TensorSum(r.out, Dim(r.out) + 1 - k, TRUE),
                            Append(r.steps, <<"sum_keepdim", 0 - k>>))
             ELSE r,
             shape, k + 1, last)

\* reduce_to_shape that ends after its while loop.
reduce_to_shape_leading_only(source, shape) ==
    reduce_to_shape_while(Reduction(source, <<>>), shape)

\* reduce_to_shape that sums a trailing axis as soon as the source is as wide
\* as the target there (>= in place of > on line 72).
reduce_to_shape_eager(source, shape) ==
    LET r == reduce_to_shape_while(Reduction(source, <<>>), shape)
    IN IF Dim(r.out) >= 1 /\ SizeFromEnd(r.out.shape, 1) >= SizeFromEnd(shape, 1)
       THEN Reduction(TensorSum(r.out, Dim(r.out), TRUE),
                      Append(r.steps, <<"sum_keepdim", 0 - 1>>))
       ELSE r

reduce_to_shape(source, shape) ==
    LET r == reduce_to_shape_while(Reduction(source, <<>>), shape)
    IN reduce_to_shape_for(r, shape, 1, Dim(r.out))

\* ------------------------------------------------------------------ actions
\* The last call: computed lists the keys whose upstream sum it computed, again
\* those of them that an earlier call on the object had computed.
NoCall == [op |-> "none", self |-> "a", key |-> <<>>, value |-> 0,
           result |-> None, view |-> EmptyDict, err |-> "ok", out |-> "a",
           changed |-> FALSE, computed |-> <<>>, again |-> {}]

\* History of an object:
\*   queried  get_upstream, items or exp was called on it, or on the object it
\*            was copied from before the copy, or it is the result of exp;
\*   listed   items or exp was called on it (or on the object it was copied from);
\*   removed  a prune call removed one of its local terms;
\*   flat     it is the result of exp, or a copy of one;
\*   pruned   the keys pruned and not passed to get_upstream since;
\*   kept     the keys pruned after items or exp, with no get_upstream call
\*            since on the key or on a key that extends it;
\*   madeBy   the call that made it;
\*   computed the keys whose upstream sum a call on it (or on the object it was
\*            copied from) has computed.
NewHist == [queried |-> FALSE, listed |-> FALSE, removed |-> FALSE, flat |-> FALSE,
            pruned |-> {}, kept |-> {}, madeBy |-> "init", computed |-> {}]

\* The elements of a sequence.
Range(s) == {s[n] : n \in 1..Len(s)}

\* One object, made by TreeSum(), held in a.
TreeInit ==
    /\ heap = [r \in Refs |-> EmptyDict]
    /\ inst = [i \in Insts |-> IF i = "a" THEN TreeSum_init("a", 0) ELSE NoObject]
    /\ ret = NoCall
    /\ hist = [i \in Insts |-> NewHist]
    /\ nops = 0
    /\ nadds = 0

NoAnswers == [asked |-> FALSE, key |-> <<>>, a |-> None, b |-> None]

OrderIdle ==
    /\ pending = [i \in Insts |-> EmptyBag]
    /\ answers = NoAnswers

NoMvtCall == [op |-> "none", self |-> "m", kind |-> "None", err |-> "ok",
              out |-> "m", dim |-> 0, shape |-> <<>>, result |-> NoValue]

MvtIdle ==
    /\ mvt = [x \in Mvts |-> EmptyDict]
    /\ mhist = [x \in Mvts |-> EmptyBag]
    /\ mret = NoMvtCall
    /\ mops = 0

NoReduction == [op |-> "none", out |-> NoValue, steps |-> <<>>]

TensorIdle ==
    /\ rsource = NoValue
    /\ rtarget = NoValue
    /\ orig = NoValue
    /\ reduced = NoReduction

Init == TreeInit /\ OrderIdle /\ MvtIdle /\ TensorIdle

\* Whether a call changed a field of its receiver or a dict.
Changed(r, i) == r.heap # heap \/ r.self # inst[i]

Add(i, key, value) ==
    /\ nops < MaxOps /\ nadds < MaxAdds /\ Live(i)
    /\ LET r == TreeSum_add(heap, inst[i], key, value)
       IN /\ heap' = r.heap
          /\ inst' = [inst EXCEPT ![i] = r.self]
          /\ ret' = [NoCall EXCEPT !.op = "add", !.self = i, !.key = key,
                                   !.value = value, !.err = r.err,
                                   !.changed = Changed(r, i)]
    /\ UNCHANGED hist
    /\ nops' = nops + 1 /\ nadds' = nadds + 1
    /\ UNCHANGED <<orderVars, mvtVars, tensorVars>>

GetUpstream(i, key) ==
    /\ nops < MaxOps /\ Live(i)
    /\ LET r == TreeSum_get_upstream(heap, inst[i], key)
       IN /\ heap' = r.heap
          /\ inst' = [inst EXCEPT ![i] = r.self]
          /\ ret' = [NoCall EXCEPT !.op = "get_upstream", !.self = i, !.key = key,
                                   !.result = r.result, !.changed = Changed(r, i),
                                   !.computed = r.computed,
                                   !.again = Range(r.computed) \cap hist[i].computed]
          /\ hist' = [hist EXCEPT ![i].queried = TRUE,
                                  ![i].pruned = @ \ {key},
                                  ![i].kept = {k \in @ : ~IsPrefix(k, key)},
                                  ![i].computed = @ \cup Range(r.computed)]
    /\ nops' = nops + 1
    /\ UNCHANGED <<nadds, orderVars, mvtVars, tensorVars>>

Items(i) ==
    /\ nops < MaxOps /\ Live(i)
    /\ LET r == TreeSum_items(heap, inst[i])
       IN /\ heap' = r.heap
          /\ inst' = [inst EXCEPT ![i] = r.self]
          /\ ret' = [NoCall EXCEPT !.op = "items", !.self = i, !.view = r.result,
                                   !.changed = Changed(r, i),
                                   !.computed = r.computed,
                                   !.again = Range(r.computed) \cap hist[i].computed]
          /\ hist' = [hist EXCEPT ![i].queried = TRUE, ![i].listed = TRUE,
                                  ![i].computed = @ \cup Range(r.computed)]
    /\ nops' = nops + 1
    /\ UNCHANGED <<nadds, orderVars, mvtVars, tensorVars>>

Exp(i, j) ==
    /\ nops < MaxOps /\ Live(i) /\ j # i
    /\ LET r == TreeSum_exp(heap, inst[i], j, nops + 1)
           h == [hist EXCEPT ![i].queried = TRUE, ![i].listed = TRUE,
                             ![i].computed = @ \cup Range(r.computed)]
       IN /\ heap' = r.heap
          /\ inst' = IF r.err = "ok"
                     THEN [inst EXCEPT ![i] = r.self, ![j] = r.result]
                     ELSE [inst EXCEPT ![i] = r.self]
          /\ ret' = [NoCall EXCEPT !.op = "exp", !.self = i, !.err = r.err, !.out = j,
                                   !.changed = Changed(r, i),
                                   !.computed = r.computed,
                                   !.again = Range(r.computed) \cap hist[i].computed]
          /\ hist' = IF r.err = "ok"
                     THEN [h EXCEPT ![j] = [NewHist EXCEPT !.queried = TRUE,
                                                           !.flat = TRUE,
                                                           !.madeBy = "exp"]]
                     ELSE h
    /\ nops' = nops + 1
    /\ UNCHANGED <<nadds, orderVars, mvtVars, tensorVars>>

Prune(i, key) ==
    /\ nops < MaxOps /\ Live(i)
    /\ LET r == TreeSum_prune(heap, inst[i], key)
       IN /\ heap' = r.heap
          /\ inst' = [inst EXCEPT ![i] = r.self]
          /\ ret' = [NoCall EXCEPT !.op = "prune", !.self = i, !.key = key,
                                   !.err = r.err, !.changed = Changed(r, i)]
          /\ hist' = IF r.err # "ok" THEN hist
                     ELSE [hist EXCEPT
                              ![i].removed = @ \/ key \in DOMAIN Terms(i),
                              ![i].pruned = @ \cup {key},
                              ![i].kept = IF hist[i].listed THEN @ \cup {key} ELSE @]
    /\ nops' = nops + 1
    /\ UNCHANGED <<nadds, orderVars, mvtVars, tensorVars>>

Copy(i, j) ==
    /\ nops < MaxOps /\ Live(i) /\ j # i
    /\ LET r == TreeSum_copy(heap, inst[i], j, nops + 1)
       IN /\ heap' = r.heap
          /\ inst' = [inst EXCEPT ![i] = r.self, ![j] = r.result]
          /\ ret' = [NoCall EXCEPT !.op = "copy", !.self = i, !.out = j,
                                   !.changed = Changed(r, i)]
    /\ hist' = [hist EXCEPT ![j] = [hist[i] EXCEPT !.madeBy = "copy"]]
    /\ nops' = nops + 1
    /\ UNCHANGED <<nadds, orderVars, mvtVars, tensorVars>>

\* Calls on the object held in a, over the whole tree of keys; b holds the
\* result of a.copy() or a.exp().
Next ==
    \/ \E key \in Keys, value \in Vals : Add("a", key, value)
    \/ \E key \in Keys : GetUpstream("a", key)
    \/ Items("a")
    \/ Exp("a", "b")
    \/ \E key \in Keys : Prune("a", key)
    \/ Copy("a", "b")

Spec == Init /\ [][Next]_vars

\* Calls on both objects, over CopyKeys; a result is held in the other variable.
NextCopy ==
    \/ \E i \in Insts, key \in CopyKeys, value \in Vals : Add(i, key, value)
    \/ \E i \in Insts, key \in CopyKeys : GetUpstream(i, key)
    \/ \E i \in Insts : Items(i)
    \/ \E i \in Insts, j \in Insts : Exp(i, j)
    \/ \E i \in Insts, key \in CopyKeys : Prune(i, key)
    \/ \E i \in Insts, j \in Insts : Copy(i, j)

SpecCopy == Init /\ [][NextCopy]_vars

\* ------------------------------------------------- two orders of add calls
\* Two objects made by TreeSum() are given the same bag of add calls; each
\* makes its calls in an order of its own, and both are queried at the end.
Calls == Keys \X Vals

RECURSIVE BagsUpTo(_)
BagsUpTo(n) ==
    IF n = 0 THEN {EmptyBag}
    ELSE LET S == BagsUpTo(n - 1)
         IN S \cup {B (+) SetToBag({c}) : B \in S, c \in Calls}

InitOrder ==
    /\ heap = [r \in Refs |-> EmptyDict]
    /\ inst = [i \in Insts |-> TreeSum_init(i, 0)]
    /\ ret = NoCall
    /\ hist = [i \in Insts |-> NewHist]
    /\ nops = 0
    /\ nadds = 0
    /\ \E B \in BagsUpTo(MaxCalls) : pending = [i \in Insts |-> B]
    /\ answers = NoAnswers
    /\ MvtIdle /\ TensorIdle

\* Object i makes one of its pending add calls.
OrderAdd(i, c) ==
    /\ BagIn(c, pending[i])
    /\ LET r == TreeSum_add(heap, inst[i], c[1], c[2])
       IN /\ heap' = r.heap
          /\ inst' = [inst EXCEPT ![i] = r.self]
    /\ pending' = [pending EXCEPT ![i] = @ (-) SetToBag({c})]
    /\ UNCHANGED <<ret, hist, nops, nadds, answers, mvtVars, tensorVars>>

\* After all the add calls, get_upstream(key) is called on both objects.
OrderQuery(key) ==
    /\ \A i \in Insts : pending[i] = EmptyBag
    /\ ~answers.asked
    /\ LET ra == TreeSum_get_upstream(heap, inst["a"], key)
           rb == TreeSum_get_upstream(ra.heap, inst["b"], key)
       IN /\ heap' = rb.heap
          /\ inst' = [inst EXCEPT !["a"] = ra.self, !["b"] = rb.self]
          /\ answers' = [asked |-> TRUE, key |-> key, a |-> ra.result, b |-> rb.result]
    /\ hist' = [i \in Insts |-> [hist[i] EXCEPT !.queried = TRUE]]
    /\ UNCHANGED <<ret, nops, nadds, pending, mvtVars, tensorVars>>

NextOrder ==
    \/ \E i \in Insts, c \in Calls : OrderAdd(i, c)
    \/ \E key \in Keys : OrderQuery(key)

SpecOrder == InitOrder /\ [][NextOrder]_vars

\* ----------------------------------------------------- MultiViewTensor
\* MultiViewTensor(value): the dict the constructor leaves.
MultiViewTensor_init(value) ==
    IF value.kind = "Variable" THEN DictSet(EmptyDict, value.shape, value)
    ELSE EmptyDict

\* add that stores a merged entry without adding it to the one already there.
MultiViewTensor_add_overwrite(self, term) ==
    IF term.kind = "Variable"
    THEN [self |-> DictSet(self, term.shape,
                           IF term.shape \in DOMAIN self
                           THEN TensorAdd(self[term.shape], term) ELSE term),
          err |-> "ok"]
    ELSE IF term.kind = "MultiViewTensor"
    THEN [self |-> [shape \in DOMAIN self \cup DOMAIN term.entries |->
                       IF shape \in DOMAIN term.entries
                       THEN term.entries[shape] ELSE self[shape]],
          err |-> "ok"]
    ELSE [self |-> self, err |-> "AttributeError"]

\* add(term): a Variable is merged under its shape; anything else is read
\* through term.items(), which a plain number does not have.  Each shape of
\* term is handled once, from the entry of self and the entry of term.
MultiViewTensor_add(self, term) ==
    IF term.kind = "Variable"
    THEN [self |-> DictSet(self, term.shape,
                           IF term.shape \in DOMAIN self
                           THEN TensorAdd(self[term.shape], term) ELSE term),
          err |-> "ok"]
    ELSE IF term.kind = "MultiViewTensor"
    THEN [self |-> [shape \in DOMAIN self \cup DOMAIN term.entries |->
                       IF shape \in DOMAIN term.entries
                       THEN IF shape \in DOMAIN self
                            THEN TensorAdd(self[shape], term.entries[shape])
                            ELSE term.entries[shape]
                       ELSE self[shape]],
          err |-> "ok"]
    ELSE [self |-> self, err |-> "AttributeError"]

\* sum_leftmost(value, dim) of pyro.distributions.util for a negative dim: all
\* but the -dim rightmost axes are summed out, from the left.
RECURSIVE SumLeftmostAxes(_, _)
SumLeftmostAxes(value, n) ==
    IF n = 0 THEN value ELSE SumLeftmostAxes(TensorSum(value, 1, FALSE), n - 1)

sum_leftmost(value, dim) == SumLeftmostAxes(value, Dim(value) + dim)

\* What sum_leftmost_all_but adds to its result for one term (lines 123-128).
Contribution(term, dim) ==
    IF dim = 0 THEN TensorSumAll(term)
    ELSE IF dim > Dim(term) THEN term
    ELSE sum_leftmost(term, 0 - dim)

\* The loop of sum_leftmost_all_but over self.items(), with the bag of the
\* terms added to the result.
RECURSIVE SumLeftmostLoop(_, _, _, _)
SumLeftmostLoop(self, dim, todo, r) ==
    IF todo = {} THEN r
    ELSE LET shape == CHOOSE s \in todo : TRUE
             term == Contribution(self[shape], dim)
         IN SumLeftmostLoop(self, dim, todo \ {shape},
                            [result |-> MultiViewTensor_add(r.result, term).self,
                             added |-> r.added (+) SetToBag({term})])

\* sum_leftmost_all_but that adds every term as it is (lines 123-124 and
\* 127-128 dropped).
MultiViewTensor_sum_leftmost_all_but_kept(self, dim) ==
    IF dim < 0
    THEN [self |-> self, result |-> EmptyDict, added |-> EmptyBag, err |-> "AssertionError"]
    ELSE [self |-> self, result |-> self,
          added |-> SetToBag({self[shape] : shape \in DOMAIN self}), err |-> "ok"]

MultiViewTensor_sum_leftmost_all_but(self, dim) ==
    IF dim < 0
    THEN [self |-> self, result |-> EmptyDict, added |-> EmptyBag, err |-> "AssertionError"]
    ELSE LET r == SumLeftmostLoop(self, dim, DOMAIN self,
                                  [result |-> MultiViewTensor_init(NoValue),
                                   added |-> EmptyBag])
         IN [self |-> self, result |-> r.result, added |-> r.added, err |-> "ok"]

\* The shape two shapes broadcast to, and whether they do.
BroadcastShape(S, T) ==
    LET n == IF Len(S) >= Len(T) THEN Len(S) ELSE Len(T)
        size(X, k) == IF k <= Len(X) THEN SizeFromEnd(X, k) ELSE 1
    IN [a \in 1..n |-> IF size(S, n + 1 - a) = 1 THEN size(T, n + 1 - a)
                       ELSE size(S, n + 1 - a)]

Broadcastable(S, T) ==
    Expandable(S, BroadcastShape(S, T)) /\ Expandable(T, BroadcastShape(S, T))

\* x + y of the tensor layer, for tensors and numbers: both are expanded to
\* the shape they broadcast to; shapes that do not broadcast raise an error.
TensorPlus(x, y) ==
    IF Broadcastable(x.shape, y.shape)
    THEN [result |-> TensorAdd(TensorExpand(x, BroadcastShape(x.shape, y.shape)),
                               TensorExpand(y, BroadcastShape(x.shape, y.shape))),
          err |-> "ok"]
    ELSE [result |-> NoValue, err |-> "RuntimeError"]

\* The number 0.
Zero == [kind |-> "Number", shape |-> <<>>, data |-> <<0>>]

\* The loops of contract_as and contract over self.values(): sum() of the
\* reduced entries, taken one shape after the other.
RECURSIVE contract_as_sum(_, _, _, _)
contract_as_sum(self, target, todo, acc) ==
    IF todo = {} \/ acc.err # "ok" THEN acc
    ELSE LET shape == CHOOSE s \in todo : TRUE
         IN contract_as_sum(self, target, todo \ {shape},
                TensorPlus(acc.result, reduce_to_target(self[shape], target).out))

RECURSIVE contract_sum(_, _, _, _)
contract_sum(self, shape, todo, acc) ==
    IF todo = {} \/ acc.err # "ok" THEN acc
    ELSE LET s == CHOOSE u \in todo : TRUE
         IN contract_sum(self, shape, todo \ {s},
                TensorPlus(acc.result, reduce_to_shape(self[s], shape).out))

MultiViewTensor_contract_as(self, target) ==
    IF self = EmptyDict THEN [result |-> Zero, err |-> "ok"]
    ELSE contract_as_sum(self, target, DOMAIN self, [result |-> Zero, err |-> "ok"])

\* 0 + x1 + x2 + ... over the entries as they are stored.
RECURSIVE PlainSum(_, _, _)
PlainSum(self, todo, acc) ==
    IF todo = {} \/ acc.err # "ok" THEN acc
    ELSE LET s == CHOOSE u \in todo : TRUE
         IN PlainSum(self, todo \ {s}, TensorPlus(acc.result, self[s]))

\* contract without reduce_to_shape.
MultiViewTensor_contract_unreduced(self, shape) ==
    IF self = EmptyDict THEN [result |-> Zero, err |-> "ok"]
    ELSE PlainSum(self, DOMAIN self, [result |-> Zero, err |-> "ok"])

MultiViewTensor_contract(self, shape) ==
    IF self = EmptyDict THEN [result |-> Zero, err |-> "ok"]
    ELSE contract_sum(self, shape, DOMAIN self, [result |-> Zero, err |-> "ok"])

\* m is made by MultiViewTensor(value), n by MultiViewTensor().
InitMvt ==
    /\ TreeInit /\ OrderIdle /\ TensorIdle
    /\ \E value \in Variables \cup Numbers \cup {NoValue} :
          /\ mvt = [x \in Mvts |-> IF x = "m" THEN MultiViewTensor_init(value)
                                   ELSE MultiViewTensor_init(NoValue)]
          /\ mhist = [x \in Mvts |-> IF x = "m" /\ value.kind = "Variable"
                                     THEN SetToBag({value}) ELSE EmptyBag]
          /\ mret = [NoMvtCall EXCEPT !.op = "__init__", !.kind = value.kind]
    /\ mops = 0

\* x.add(term) for a tensor or a number.
MvtAdd(x, term) ==
    /\ mops < MaxTerms
    /\ LET r == MultiViewTensor_add(mvt[x], term)
       IN /\ mvt' = [mvt EXCEPT ![x] = r.self]
          /\ mret' = [NoMvtCall EXCEPT !.op = "add", !.self = x, !.kind = term.kind,
                                      !.err = r.err]
          /\ mhist' = IF r.err = "ok"
                      THEN [mhist EXCEPT ![x] = @ (+) SetToBag({term})]
                      ELSE mhist
    /\ mops' = mops + 1
    /\ UNCHANGED <<treeVars, orderVars, tensorVars>>

\* x.add(y) for an accumulator y, which may be x itself.
MvtAddAll(x, y) ==
    /\ mops < MaxTerms
    /\ LET r == MultiViewTensor_add(mvt[x], AsTerm(mvt[y]))
       IN /\ mvt' = [mvt EXCEPT ![x] = r.self]
          /\ mret' = [NoMvtCall EXCEPT !.op = "add", !.self = x,
                                      !.kind = "MultiViewTensor", !.err = r.err]
          /\ mhist' = IF r.err = "ok"
                      THEN [mhist EXCEPT ![x] = @ (+) mhist[y]]
                      ELSE mhist
    /\ mops' = mops + 1
    /\ UNCHANGED <<treeVars, orderVars, tensorVars>>

NextMvt ==
    \/ \E x \in Mvts, term \in Variables \cup Numbers : MvtAdd(x, term)
    \/ \E x \in Mvts, y \in Mvts : MvtAddAll(x, y)

SpecMvt == InitMvt /\ [][NextMvt]_vars

\* ------------------------------- reductions of a MultiViewTensor
\* The tensors added before an accumulator is reduced, the values of dim, and
\* the targets of a contraction.
ContractTerms ==
    {[kind |-> "Variable", shape |-> <<>>, data |-> <<1>>],
     [kind |-> "Variable", shape |-> <<2>>, data |-> <<1, 2>>],
     [kind |-> "Variable", shape |-> <<3>>, data |-> <<1, 0, 2>>],
     [kind |-> "Variable", shape |-> <<1, 2>>, data |-> <<2, 1>>],
     [kind |-> "Variable", shape |-> <<2, 2>>, data |-> <<1, 2, 3, 4>>],
     [kind |-> "Variable", shape |-> <<2, 1, 2>>, data |-> <<1, 2, 3, 4>>]}
Dims == {0 - 1, 0, 1, 2, 3, 4}
ContractShapes == {<<>>, <<1>>, <<2>>, <<3>>, <<1, 2>>, <<2, 1>>, <<2, 2>>}
ContractTargets ==
    {[kind |-> "Variable", shape |-> shape, data |-> [n \in 1..NumElems(shape) |-> 0]] :
        shape \in ContractShapes}

\* y = x.sum_leftmost_all_but(dim)
SumLeftmostAllBut(x, y, dim) ==
    /\ mops < MaxTerms /\ x # y
    /\ LET r == MultiViewTensor_sum_leftmost_all_but(mvt[x], dim)
       IN /\ mvt' = IF r.err = "ok" THEN [mvt EXCEPT ![x] = r.self, ![y] = r.result]
                    ELSE [mvt EXCEPT ![x] = r.self]
          /\ mhist' = IF r.err = "ok" THEN [mhist EXCEPT ![y] = r.added] ELSE mhist
          /\ mret' = [NoMvtCall EXCEPT !.op = "sum_leftmost_all_but", !.self = x,
                                      !.out = y, !.dim = dim, !.err = r.err]
    /\ mops' = mops + 1
    /\ UNCHANGED <<treeVars, orderVars, tensorVars>>

\* x.contract(shape)
Contract(x, shape) ==
    /\ mops < MaxTerms
    /\ LET r == MultiViewTensor_contract(mvt[x], shape)
       IN mret' = [NoMvtCall EXCEPT !.op = "contract", !.self = x, !.shape = shape,
                                   !.err = r.err, !.result = r.result]
    /\ mops' = mops + 1
    /\ UNCHANGED <<mvt, mhist, treeVars, orderVars, tensorVars>>

\* x.contract_as(target)
ContractAs(x, target) ==
    /\ mops < MaxTerms
    /\ LET r == MultiViewTensor_contract_as(mvt[x], target)
       IN mret' = [NoMvtCall EXCEPT !.op = "contract_as", !.self = x,
                                   !.shape = target.shape,
                                   !.err = r.err, !.result = r.result]
    /\ mops' = mops + 1
    /\ UNCHANGED <<mvt, mhist, treeVars, orderVars, tensorVars>>

\* m and n are made by MultiViewTensor(); tensors are added to m, n is given
\* the result of m.sum_leftmost_all_but(dim), and both are contracted.
NextContract ==
    \/ \E term \in ContractTerms : MvtAdd("m", term)
    \/ \E dim \in Dims : SumLeftmostAllBut("m", "n", dim)
    \/ \E x \in Mvts, shape \in ContractShapes : Contract(x, shape)
    \/ \E x \in Mvts, target \in ContractTargets : ContractAs(x, target)

SpecContract == Init /\ [][NextContract]_vars

\* ------------------------------------------- calls of the reduction helpers
\* The tensors of a shape with entries 0 and 1, and the scalar 3.
TensorsOf(shape) ==
    {[kind |-> "Variable", shape |-> shape, data |-> d] :
        d \in [1..NumElems(shape) -> Entries]}
Three == [kind |-> "Variable", shape |-> <<>>, data |-> <<3>>]
ReduceSources == UNION {TensorsOf(shape) : shape \in ReduceShapes} \cup {Three}
\* Of a target only the shape is read.
ReduceTargets ==
    {[kind |-> "Variable", shape |-> shape, data |-> [n \in 1..NumElems(shape) |-> 0]] :
        shape \in ReduceShapes}

InitReduce ==
    /\ TreeInit /\ OrderIdle /\ MvtIdle
    /\ rsource \in ReduceSources
    /\ rtarget \in ReduceTargets
    /\ orig = NoValue
    /\ reduced = NoReduction

\* source = source.expand(shape), before the helper is called.
Expand(shape) ==
    /\ reduced.op = "none" /\ orig = NoValue
    /\ Expandable(rsource.shape, shape)
    /\ rsource' = TensorExpand(rsource, shape)
    /\ orig' = rsource
    /\ UNCHANGED <<rtarget, reduced, treeVars, orderVars, mvtVars>>

ReduceToTarget ==
    /\ reduced.op = "none"
    /\ LET r == reduce_to_target(rsource, rtarget)
       IN reduced' = [op |-> "reduce_to_target", out |-> r.out, steps |-> r.steps]
    /\ UNCHANGED <<rsource, rtarget, orig, treeVars, orderVars, mvtVars>>

ReduceToShape ==
    /\ reduced.op = "none"
    /\ LET r == reduce_to_shape(rsource, rtarget.shape)
       IN reduced' = [op |-> "reduce_to_shape", out |-> r.out, steps |-> r.steps]
    /\ UNCHANGED <<rsource, rtarget, orig, treeVars, orderVars, mvtVars>>

NextReduce ==
    \/ \E shape \in ExpandShapes : Expand(shape)
    \/ ReduceToTarget
    \/ ReduceToShape

SpecReduce == InitReduce /\ [][NextReduce]_vars

\* ------------------------------------------------------------- properties
\* The number a get_upstream result stands for: None denotes zero.
ValueOf(x) == IF x = None THEN 0 ELSE x[1]

RECURSIVE SumOver(_, _)
SumOver(f, S) ==
    IF S = {} THEN 0
    ELSE LET x == CHOOSE y \in S : TRUE IN f[x] + SumOver(f, S \ {x})

\* The sum of the local terms at key and at every proper prefix of key.
LocalSum(terms, key) == SumOver(terms, {k \in DOMAIN terms : IsPrefix(k, key)})

\* C1: add succeeds on an object exactly as long as no upstream query
\* (get_upstream, items, exp) has been made on it, and fails with an assertion
\* error afterwards, whatever the keys; the frozen flag is False at first,
\* True from the first query on, and no call resets it.
C1_FreezeEnforcement ==
    /\ [](\A i \in Insts : Live(i) => (Frozen(i) <=> hist[i].queried))
    /\ [][ret'.op = "add" =>
             /\ ~hist[ret'.self].queried => ret'.err = "ok"
             /\ hist[ret'.self].queried => ret'.err = "AssertionError"]_vars
    /\ [][\A i \in Insts :
             (Live(i) /\ inst'[i].id = inst[i].id /\ Frozen(i)) => inst'[i].frozen]_vars

\* An add that failed on an object that holds a term an earlier add stored.
C1_Witness ==
    /\ ret.op = "add" /\ ret.err = "AssertionError"
    /\ hist[ret.self].queried /\ Terms(ret.self) # EmptyDict

\* C2 as stated: in every reachable state, get_upstream(k) returns the sum of
\* the local terms at k and at every proper prefix of k.
C2_UpstreamEverywhere ==
    ret.op = "get_upstream" =>
        ValueOf(ret.result) = LocalSum(Terms(ret.self), ret.key)

\* C2 as amended: on an object built by add calls (not an exp result) from
\* which prune has removed no local term, get_upstream(k) returns the sum of
\* the local terms at k and at every proper prefix of k, for every key k.
C2_UpstreamBeforePrune ==
    /\ \A i \in Insts :
          (Live(i) /\ ~hist[i].flat /\ ~hist[i].removed) =>
              \A key \in Keys :
                  ValueOf(TreeSum_get_upstream(heap, inst[i], key).result)
                      = LocalSum(Terms(i), key)
    /\ (ret.op = "get_upstream" /\ ~hist[ret.self].flat /\ ~hist[ret.self].removed) =>
          ValueOf(ret.result) = LocalSum(Terms(ret.self), ret.key)

\* get_upstream of a grandchild returned the sum of two local terms.
C2_Witness ==
    /\ ret.op = "get_upstream" /\ Len(ret.key) = 2 /\ ret.result = Some(2)
    /\ <<>> \in DOMAIN Terms(ret.self) /\ ~hist[ret.self].removed

\* C3 as stated: a key pruned from a frozen object is in the output of no later
\* items() call, whatever calls on other keys come in between.
C3_PrunedNeverListed ==
    ret.op = "items" => DOMAIN ret.view \cap hist[ret.self].pruned = {}

\* C3 as amended: a key pruned after items() or exp() was called on the object
\* is in the output of no later items() call, as long as no get_upstream call
\* on the key or on a key that extends it comes in between.
C3_PrunedNotListed ==
    /\ \A i \in Insts :
          Live(i) => DOMAIN TreeSum_items(heap, inst[i]).result \cap hist[i].kept = {}
    /\ ret.op = "items" => DOMAIN ret.view \cap hist[ret.self].kept = {}

\* items() after a prune that followed an earlier items(), with entries left.
C3_Witness ==
    /\ ret.op = "items" /\ hist[ret.self].kept # {} /\ ret.view # EmptyDict

\* C4: exp() does not fail, and the upstream cache of its result has exactly
\* the keys of the receiver's local terms, each with exp of the receiver's
\* upstream sum at the key; the result holds no local term.
C4_ExpRestriction ==
    ret.op = "exp" =>
        /\ ret.err = "ok"
        /\ Live(ret.out) /\ Frozen(ret.out)
        /\ Terms(ret.out) = EmptyDict
        /\ DOMAIN Upstream(ret.out) = DOMAIN Terms(ret.self)
        /\ \A key \in DOMAIN Terms(ret.self) :
              /\ key \in DOMAIN Upstream(ret.self)
              /\ Upstream(ret.out)[key] = torch_exp(Upstream(ret.self)[key])

\* exp() on a receiver that caches a key without a local term, after a prune.
C4_Witness ==
    /\ ret.op = "exp" /\ Terms(ret.self) # EmptyDict
    /\ DOMAIN Upstream(ret.self) # DOMAIN Terms(ret.self)
    /\ hist[ret.self].pruned # {}

\* C5: two orders of the same bag of add calls on two fresh objects leave
\* equal local terms, and get_upstream(k) returns the same on both for every k.
C5_OrderIndependent ==
    (\A i \in Insts : Live(i) /\ pending[i] = EmptyBag /\ hist[i].madeBy = "init") =>
        /\ Terms("a") = Terms("b")
        /\ answers.asked => answers.a = answers.b
        /\ \A key \in Keys :
              TreeSum_get_upstream(heap, inst["a"], key).result
                  = TreeSum_get_upstream(heap, inst["b"], key).result

\* Both objects have added two values at one key and a value above it, and
\* were asked for that key's upstream sum.
C5_Witness ==
    /\ answers.asked /\ answers.a = Some(2) /\ Len(answers.key) = 1
    /\ Cardinality(DOMAIN Terms("a")) = 2 /\ Terms("b")[answers.key] = 1
    /\ \A i \in Insts : pending[i] = EmptyBag

\* C6: add on a frozen object and prune on an object that is not frozen raise
\* an error and leave the local terms, the upstream cache and the flag as
\* they were.
C6_MisuseLeavesState ==
    [][/\ (ret'.op = "add" /\ Frozen(ret'.self)) =>
             (ret'.err = "AssertionError" /\ heap' = heap /\ inst' = inst)
       /\ (ret'.op = "prune" /\ ~Frozen(ret'.self)) =>
             (ret'.err = "AssertionError" /\ heap' = heap /\ inst' = inst)]_vars

\* A failed add on a frozen object that holds a local term and cache entries.
C6_Witness ==
    /\ ret.op = "add" /\ ret.err = "AssertionError" /\ ~ret.changed
    /\ Terms(ret.self) # EmptyDict /\ Upstream(ret.self) # EmptyDict

\* C7: copy() returns an object with equal local terms, upstream cache and
\* flag, and afterwards no call on one object changes the local terms, the
\* upstream cache or the flag of the other.
C7_CopyIndependent ==
    /\ [](ret.op = "copy" =>
             /\ Live(ret.out)
             /\ Terms(ret.out) = Terms(ret.self)
             /\ Upstream(ret.out) = Upstream(ret.self)
             /\ Frozen(ret.out) = Frozen(ret.self))
    /\ [][\A j \in Insts :
             (Live(j) /\ j # ret'.self /\ inst'[j].id = inst[j].id) =>
                 /\ heap'[inst'[j].terms] = Terms(j)
                 /\ heap'[inst'[j].upstream] = Upstream(j)
                 /\ inst'[j].frozen = Frozen(j)]_vars

\* After a copy, each of the two objects was given a term the other lacks.
C7_Witness ==
    \E i \in Insts, j \in Insts :
        /\ i # j /\ Live(i) /\ Live(j) /\ hist[j].madeBy = "copy"
        /\ DOMAIN Terms(i) \ DOMAIN Terms(j) # {}
        /\ DOMAIN Terms(j) \ DOMAIN Terms(i) # {}

\* C8: when items() returns, the object is frozen, every key with a local
\* term has an entry in the upstream cache, and the result is that cache.
C8_ItemsFreezes ==
    ret.op = "items" =>
        /\ Frozen(ret.self)
        /\ DOMAIN Terms(ret.self) \subseteq DOMAIN Upstream(ret.self)
        /\ ret.view = Upstream(ret.self)

\* items() as the first call on an object without local terms.
C8_Witness ==
    ret.op = "items" /\ Terms(ret.self) = EmptyDict /\ nops = 1

\* C9: on a frozen object, prune of a key in neither map changes nothing and
\* raises no error, and a second prune of a key changes nothing after the
\* first.
C9_PruneIdempotent ==
    /\ [][(/\ ret'.op = "prune" /\ Frozen(ret'.self)
            /\ ret'.key \notin DOMAIN Terms(ret'.self)
            /\ ret'.key \notin DOMAIN Upstream(ret'.self)) =>
              (ret'.err = "ok" /\ heap' = heap /\ inst' = inst)]_vars
    /\ [](\A i \in Insts, key \in Keys :
             (Live(i) /\ Frozen(i)) =>
                 LET once == TreeSum_prune(heap, inst[i], key)
                     twice == TreeSum_prune(once.heap, once.self, key)
                 IN /\ once.err = "ok" /\ twice.err = "ok"
                    /\ twice.heap = once.heap /\ twice.self = once.self)

\* A prune that changed nothing, on a frozen object with cache entries.
C9_Witness ==
    /\ ret.op = "prune" /\ ret.err = "ok" /\ ~ret.changed
    /\ Upstream(ret.self) # EmptyDict

\* The elementwise sum of the terms of shape `shape` in the bag B.
RECURSIVE BagDataSum(_, _, _)
BagDataSum(B, S, n) ==
    IF S = {} THEN 0
    ELSE LET t == CHOOSE u \in S : TRUE
         IN B[t] * t.data[n] + BagDataSum(B, S \ {t}, n)

ShapeSum(B, shape) ==
    [n \in 1..NumElems(shape) |->
        BagDataSum(B, {t \in BagToSet(B) : t.shape = shape}, n)]

\* C10: the entry of an accumulator under a shape is the elementwise sum of
\* the terms added under exactly that shape (by themselves or within an
\* accumulator), whatever the order of the calls; no entry is ever deleted.
C10_PerShapeSum ==
    /\ [](\A x \in Mvts :
             /\ DOMAIN mvt[x] = {t.shape : t \in BagToSet(mhist[x])}
             /\ \A shape \in DOMAIN mvt[x] :
                   /\ mvt[x][shape].shape = shape
                   /\ mvt[x][shape].data = ShapeSum(mhist[x], shape))
    /\ [][\A x \in Mvts : DOMAIN mvt[x] \subseteq DOMAIN mvt'[x]]_vars

\* A merge of a whole accumulator left an accumulator with two shapes, one
\* of them holding the sum of several terms.
C10_Witness ==
    /\ mret.op = "add" /\ mret.kind = "MultiViewTensor" /\ mret.err = "ok"
    /\ Cardinality(DOMAIN mvt[mret.self]) >= 2
    /\ \E shape \in DOMAIN mvt[mret.self] :
          \E n \in DOMAIN mvt[mret.self][shape].data :
              mvt[mret.self][shape].data[n] >= 2

\* The shape S with axes of size 1 added at the left, up to n axes.
PaddedTo(S, n) ==
    [a \in 1..n |-> IF a <= n - Len(S) THEN 1 ELSE S[a - (n - Len(S))]]

\* C11: a tensor of shape S expanded to shape T and reduced by reduce_to_shape
\* (or reduce_to_target) to S, or to S with axes of size 1 added at the left,
\* has the target shape, and each of its entries is the entry of the original
\* tensor times the number of replicas, NumElems(T) / NumElems(S).
C11_RoundTrip ==
    (/\ orig # NoValue /\ reduced.op # "none"
     /\ \E n \in Len(orig.shape)..Len(rsource.shape) :
           rtarget.shape = PaddedTo(orig.shape, n)) =>
        /\ reduced.out.shape = rtarget.shape
        /\ Len(reduced.out.data) = NumElems(orig.shape)
        /\ \A n \in 1..NumElems(orig.shape) :
              reduced.out.data[n]
                  = orig.data[n] * (NumElems(rsource.shape) \div NumElems(orig.shape))

\* The scalar 3 expanded to (4, 5) and reduced to (1, 1) gave 60.
C11_Witness ==
    /\ orig = Three /\ rsource.shape = <<4, 5>> /\ rtarget.shape = <<1, 1>>
    /\ reduced.op = "reduce_to_shape" /\ reduced.out.data = <<60>>

\* C12 as stated: for every source and every target shape, the output of the
\* helpers is broadcastable into the target shape.
C12_AlwaysBroadcastable ==
    reduced.op # "none" => Expandable(reduced.out.shape, rtarget.shape)

\* C12 as amended: the output has the smaller of the two ranks; each of its
\* axes, matched from the end, has size 1 where the source is wider than the
\* target and the size of the source otherwise, so it is broadcastable into
\* the target shape exactly when every such axis of the source is at least as
\* wide as the target's or of size 1; a source with no more axes and no wider
\* on any axis is returned unchanged.
C12_ReducedShape ==
    reduced.op # "none" =>
        LET S == rsource.shape
            T == rtarget.shape
            O == reduced.out.shape
            n == IF Len(S) <= Len(T) THEN Len(S) ELSE Len(T)
        IN /\ Len(O) = n
           /\ \A k \in 1..n :
                 SizeFromEnd(O, k) = IF SizeFromEnd(S, k) > SizeFromEnd(T, k)
                                     THEN 1 ELSE SizeFromEnd(S, k)
           /\ Expandable(O, T) <=>
                 \A k \in 1..n : \/ SizeFromEnd(S, k) >= SizeFromEnd(T, k)
                                 \/ SizeFromEnd(S, k) = 1
           /\ (Len(S) <= Len(T)
                 /\ \A k \in 1..n : SizeFromEnd(S, k) <= SizeFromEnd(T, k)) =>
                 (reduced.out = rsource /\ reduced.steps = <<>>)

\* A source of two axes reduced to a target of one axis of size 1: one axis was
\* summed away and one was summed and kept.
C12_Witness ==
    /\ reduced.op = "reduce_to_shape" /\ orig = NoValue
    /\ rsource.shape = <<2, 3>> /\ rtarget.shape = <<1>>
    /\ reduced.steps = << <<"sum", 0>>, <<"sum_keepdim", 0 - 1>> >>
    /\ reduced.out.shape = <<1>>

\* The sum of all the entries of all the tensors of an accumulator.
Total(acc) == SumOver([s \in DOMAIN acc |-> SumSeq(acc[s].data)], DOMAIN acc)

\* The tensor left of a term of rank r by dim: for 1 <= dim <= r its last dim
\* axes, each entry the sum of the entries of the term at that index of the
\* last axes and any index of the r - dim leftmost ones.
Kept(term, dim) ==
    IF dim = 0
    THEN [kind |-> "Variable", shape |-> <<>>, data |-> <<SumSeq(term.data)>>]
    ELSE IF dim > Dim(term) THEN term
    ELSE LET last == SubSeq(term.shape, Dim(term) - dim + 1, Dim(term))
             width == NumElems(last)
             rows == NumElems(term.shape) \div width
         IN [kind |-> "Variable", shape |-> last,
             data |-> [n \in 1..width |->
                          SumSeq([j \in 1..rows |-> term.data[(j - 1) * width + n]])]]

\* C13: sum_leftmost_all_but(dim), dim >= 0, leaves the receiver as it was and
\* returns an accumulator whose entry under a shape is the sum of what the
\* stored tensors leave under that shape: of a tensor of rank r the sum of all
\* its entries when dim = 0, the tensor itself when dim > r, and otherwise the
\* tensor summed over its leftmost r - dim axes.  With dim = 0 the result has
\* one aggregate at most, and the sum of all entries is that of the receiver.
C13_SumLeftmostAllBut ==
    /\ [][mret'.op = "sum_leftmost_all_but" =>
             mvt'[mret'.self] = mvt[mret'.self]]_vars
    /\ []((mret.op = "sum_leftmost_all_but" /\ mret.dim >= 0) =>
             LET self == mvt[mret.self]
                 result == mvt[mret.out]
                 part == [s \in DOMAIN self |-> Kept(self[s], mret.dim)]
             IN /\ mret.err = "ok"
                /\ DOMAIN result = {part[s].shape : s \in DOMAIN self}
                /\ \A shape \in DOMAIN result :
                      /\ result[shape].shape = shape
                      /\ Len(result[shape].data) = NumElems(shape)
                      /\ \A n \in 1..NumElems(shape) :
                            result[shape].data[n] =
                                SumOver([s \in DOMAIN self |-> part[s].data[n]],
                                        {s \in DOMAIN self : part[s].shape = shape})
                /\ mret.dim = 0 =>
                      /\ Cardinality(DOMAIN result) <= 1
                      /\ Total(result) = Total(self))

\* sum_leftmost_all_but(1) on an accumulator that holds a tensor of rank 3 and
\* another tensor: both were summed into one entry of one axis.
C13_Witness ==
    /\ mret.op = "sum_leftmost_all_but" /\ mret.dim = 1 /\ mret.err = "ok"
    /\ <<2, 1, 2>> \in DOMAIN mvt[mret.self]
    /\ Cardinality(DOMAIN mvt[mret.self]) >= 2
    /\ DOMAIN mvt[mret.out] = {<<2>>}

\* Every two of a set of shapes broadcast to one shape.
Compatible(shapes) == \A S \in shapes, T \in shapes : Broadcastable(S, T)

\* The shape a set of shapes that are compatible broadcasts to.
RECURSIVE CommonShape(_)
CommonShape(shapes) ==
    IF shapes = {} THEN <<>>
    ELSE LET S == CHOOSE T \in shapes : TRUE
         IN BroadcastShape(S, CommonShape(shapes \ {S}))

\* C14: contract(shape) and contract_as(target) return the number 0, without
\* an error, on an accumulator with no entry.  On one with entries they return
\* the sum of the entries, each reduced by the reduction helper to the target
\* and expanded to the shape the reduced entries broadcast to; the call fails
\* with the error of the tensor layer exactly when they do not broadcast.
C14_Contract ==
    mret.op \in {"contract", "contract_as"} =>
        LET self == mvt[mret.self]
            part == [s \in DOMAIN self |-> reduce_to_shape(self[s], mret.shape).out]
            shapes == {part[s].shape : s \in DOMAIN self}
        IN IF self = EmptyDict
           THEN mret.err = "ok" /\ mret.result = Zero
           ELSE /\ mret.err = "ok" <=> Compatible(shapes)
                /\ mret.err = "ok" =>
                      /\ mret.result.kind = "Variable"
                      /\ mret.result.shape = CommonShape(shapes)
                      /\ Len(mret.result.data) = NumElems(mret.result.shape)
                      /\ \A n \in 1..NumElems(mret.result.shape) :
                            mret.result.data[n] =
                                SumOver([s \in DOMAIN self |->
                                            TensorExpand(part[s], mret.result.shape).data[n]],
                                        DOMAIN self)

\* contract((2,)) on an accumulator of two entries, of ranks 2 and 3, returned
\* one tensor of shape (2,).
C14_Witness ==
    /\ mret.op = "contract" /\ mret.err = "ok" /\ mret.shape = <<2>>
    /\ DOMAIN mvt[mret.self] = {<<2, 2>>, <<2, 1, 2>>}
    /\ mret.result.shape = <<2>>

\* C15 as stated, for MultiViewTensor: MultiViewTensor(value) and add(term)
\* given a plain number store it as a term of rank 0, without an error.
C15_NumbersAccepted ==
    /\ (mret.op = "__init__" /\ mret.kind = "Number") =>
          <<>> \in DOMAIN mvt[mret.self]
    /\ (mret.op = "add" /\ mret.kind = "Number") =>
          (mret.err = "ok" /\ <<>> \in DOMAIN mvt[mret.self])

\* The calls that read upstream sums.
Queries == {"get_upstream", "items", "exp"}

\* The number of times a key is in a sequence of keys.
Count(s, key) == Cardinality({n \in 1..Len(s) : s[n] = key})

\* C16 as stated: over any sequence of calls the upstream sum of a key is
\* computed at most once, and no get_upstream, items or exp call computes or
\* changes the entry of a key that has an entry in the upstream cache.
C16_ComputedOnce ==
    [][ret'.op \in Queries =>
          LET i == ret'.self
          IN /\ \A key \in Range(ret'.computed) :
                   key \notin hist[i].computed /\ Count(ret'.computed, key) = 1
             /\ \A key \in DOMAIN Upstream(i) :
                   /\ key \notin Range(ret'.computed)
                   /\ heap'[inst'[i].upstream][key] = Upstream(i)[key]]_vars

\* C16 as amended: while a key has an entry in the upstream cache, no
\* get_upstream, items or exp call computes or changes the entry, and
\* get_upstream of the key returns it and changes nothing; no call computes a
\* key twice.  An entry once computed leaves the cache only by prune of its
\* key, and only a key pruned since is computed again.
C16_ComputedOncePerPrune ==
    /\ [][ret'.op \in Queries =>
             LET i == ret'.self
             IN /\ \A key \in DOMAIN Upstream(i) :
                      /\ key \notin Range(ret'.computed)
                      /\ heap'[inst'[i].upstream][key] = Upstream(i)[key]
                /\ \A key \in Range(ret'.computed) :
                      /\ Count(ret'.computed, key) = 1
                      /\ key \in hist[i].computed => key \in hist[i].pruned
                /\ (ret'.op = "get_upstream" /\ ret'.key \in DOMAIN Upstream(i)) =>
                      /\ ret'.result = Upstream(i)[ret'.key]
                      /\ ret'.computed = <<>>
                      /\ heap' = heap /\ inst' = inst]_vars
    /\ [][\A i \in Insts :
             (Live(i) /\ inst'[i].id = inst[i].id) =>
                 \A key \in DOMAIN Upstream(i) \ DOMAIN heap'[inst'[i].upstream] :
                     ret'.op = "prune" /\ ret'.self = i /\ ret'.key = key]_vars
    /\ [](\A i \in Insts :
             Live(i) => \A key \in hist[i].computed :
                           key \in DOMAIN Upstream(i) \/ key \in hist[i].pruned)

\* A get_upstream call computed, for the second time, the upstream sum of a
\* key pruned in between, and returned a value.
C16_Witness ==
    /\ ret.op = "get_upstream" /\ ret.again # {} /\ ret.result # None
    /\ Terms(ret.self) # EmptyDict

\* C17: once an object is frozen it stays frozen, and no call inserts a local
\* term or changes the value of one: add, get_upstream, items, exp and copy
\* leave the local terms as they are, and prune removes the key it is given
\* and nothing else.
C17_FrozenTermsImmutable ==
    [][\A i \in Insts :
          (Live(i) /\ Frozen(i) /\ inst'[i].id = inst[i].id) =>
              LET after == heap'[inst'[i].terms]
              IN /\ inst'[i].frozen
                 /\ DOMAIN after \subseteq DOMAIN Terms(i)
                 /\ \A key \in DOMAIN after : after[key] = Terms(i)[key]
                 /\ after # Terms(i) =>
                       /\ ret'.op = "prune" /\ ret'.self = i
                       /\ DOMAIN after = DOMAIN Terms(i) \ {ret'.key}]_vars

\* A prune on a frozen object removed one local term and left another.
C17_Witness ==
    /\ ret.op = "prune" /\ ret.changed /\ Frozen(ret.self)
    /\ hist[ret.self].removed
    /\ ret.key \notin DOMAIN Terms(ret.self)
    /\ Terms(ret.self) # EmptyDict

\* The keys with a local term among key and its prefixes.
TermsOnPath(i, key) == {k \in DOMAIN Terms(i) : IsPrefix(k, key)}

\* C18 as stated: get_upstream(k) returns None exactly when neither k nor any
\* prefix of k has a local term.
C18_NoneIffNoTerm ==
    ret.op = "get_upstream" =>
        (ret.result = None <=> TermsOnPath(ret.self, ret.key) = {})

\* C18 as amended: in every state get_upstream(k) returns a concrete value
\* when k or a prefix of k has a local term.  On an object built by add calls
\* (not an exp result) from which prune has removed no local term, it returns
\* None exactly when neither k nor any prefix of k has a local term, and the
\* sum of those terms otherwise, a concrete zero when they are zero; and the
\* cache holds None, never zero, for a key without a local term on its path.
C18_NoneIffNoTermBeforePrune ==
    /\ \A i \in Insts, key \in Keys :
          Live(i) =>
              LET result == TreeSum_get_upstream(heap, inst[i], key).result
              IN /\ TermsOnPath(i, key) # {} => result # None
                 /\ (~hist[i].flat /\ ~hist[i].removed) =>
                       /\ result = None <=> TermsOnPath(i, key) = {}
                       /\ TermsOnPath(i, key) # {} =>
                             result = Some(LocalSum(Terms(i), key))
    /\ ret.op = "get_upstream" =>
          /\ TermsOnPath(ret.self, ret.key) # {} => ret.result # None
          /\ (~hist[ret.self].flat /\ ~hist[ret.self].removed) =>
                (ret.result = None <=> TermsOnPath(ret.self, ret.key) = {})
    /\ \A i \in Insts :
          (Live(i) /\ ~hist[i].flat /\ ~hist[i].removed) =>
              \A key \in DOMAIN Upstream(i) :
                  Upstream(i)[key] = None <=> TermsOnPath(i, key) = {}

\* get_upstream returned a concrete zero for a key whose local term is zero,
\* on an object whose cache holds None for another key.
C18_Witness ==
    /\ ret.op = "get_upstream" /\ ret.result = Some(0)
    /\ ret.key \in DOMAIN Terms(ret.self) /\ ~hist[ret.self].removed
    /\ \E key \in DOMAIN Upstream(ret.self) : Upstream(ret.self)[key] = None

\* C19: every object, also one made by copy() or exp(), whose upstream cache
\* has an entry is frozen; a get_upstream call answered from the cache changes
\* nothing and leaves the object frozen, and add fails on it.
C19_CacheImpliesFrozen ==
    /\ [](\A i \in Insts : (Live(i) /\ Upstream(i) # EmptyDict) => Frozen(i))
    /\ [][(ret'.op = "get_upstream" /\ ret'.key \in DOMAIN Upstream(ret'.self)) =>
             (heap' = heap /\ inst' = inst /\ inst'[ret'.self].frozen)]_vars
    /\ [](\A i \in Insts :
             (Live(i) /\ Upstream(i) # EmptyDict) =>
                 \A key \in CopyKeys, value \in Vals :
                     TreeSum_add(heap, inst[i], key, value).err = "AssertionError")

\* A get_upstream call answered from the cache of an object made by exp().
C19_Witness ==
    /\ ret.op = "get_upstream" /\ ~ret.changed /\ ret.computed = <<>>
    /\ hist[ret.self].madeBy = "exp" /\ Terms(ret.self) = EmptyDict
    /\ Frozen(ret.self)

\* C20: for every accumulator and every target tensor t, contract_as(t)
\* returns what contract(shape of t) returns, the same tensor or number or
\* the same error, and reduce_to_target(x, t) makes the reductions of
\* reduce_to_shape(x, shape of t), in the same order, for every stored x.
C20_ContractAsIsContract ==
    /\ \A x \in Mvts, t \in ContractTargets :
          /\ MultiViewTensor_contract_as(mvt[x], t)
                 = MultiViewTensor_contract(mvt[x], t.shape)
          /\ \A s \in DOMAIN mvt[x] :
                reduce_to_target(mvt[x][s], t) = reduce_to_shape(mvt[x][s], t.shape)
    /\ mret.op = "contract_as" =>
          [result |-> mret.result, err |-> mret.err]
              = MultiViewTensor_contract(mvt[mret.self], mret.shape)

\* contract_as on an accumulator of two entries, one of them reduced over a
\* leading and over a trailing axis.
C20_Witness ==
    /\ mret.op = "contract_as" /\ mret.err = "ok" /\ mret.shape = <<1>>
    /\ DOMAIN mvt[mret.self] = {<<2, 2>>, <<3>>}
    /\ mret.result.shape = <<1>>

====
